---- MODULE Spec2Model ----
(***************************************************************************)
(* Protein Meals API (src/main.py, src/schemas.py): the request handlers   *)
(* over the three collections "meal", "subscription" and "preference".     *)
(*                                                                         *)
(* Representation                                                          *)
(*   - a collection is the sequence of its documents in insertion order;   *)
(*   - Optional[T]: None is <<>>, a given value x is <<x>>;                *)
(*   - servings are fixed-point numbers in units of 1/ServingsScale, so    *)
(*     0.25 is 1 and 2.0 is 8; macro inputs are whole numbers and scaled   *)
(*     macros are in tenths (the one decimal round(_, 1) keeps). Every     *)
(*     product of such inputs is a binary fraction, so Python's round is   *)
(*     exact round-half-to-even on it;                                     *)
(*   - the store's native identity is [t |-> "ObjectId", n |-> k]; a       *)
(*     Python str is [t |-> "str", s |-> <<characters>>];                  *)
(*   - a character outside ASCII in a text of the program is written as    *)
(*     its escape: U+2705 (check mark) is the six characters \u2705,       *)
(*     U+274C (cross) is \u274c, U+26A0 U+FE0F (warning) is \u26a0\ufe0f.  *)
(***************************************************************************)
EXTENDS Integers, Sequences, FiniteSets, TLC

VARIABLES
    db,            \* database.db: "present" or "none" (db is None)
    env,           \* process environment: [url, name] configured or not
    extra,         \* number of collections of the database that are not this service's
    meal,          \* collection "meal"
    subscription,  \* collection "subscription"
    preference,    \* collection "preference"
    nextId,        \* the next identity the store assigns
    pc,            \* per request slot: "idle" or "seed_loop" (inside seed's for loop)
    existing,      \* per request slot: seed's local `existing`
    idx,           \* per request slot: position of seed's for loop in INITIAL_MEALS
    req,           \* per request slot: the request being (or last) handled
    resp,          \* per request slot: the last response sent
    upserts,       \* log of the preference payloads whose upsert succeeded
    faults,        \* number of store calls that raised so far
    calls          \* number of requests received so far

vars == <<db, env, extra, meal, subscription, preference, nextId, pc, existing,
          idx, req, resp, upserts, faults, calls>>

----------------------------------------------------------------------------
(* Bounds *)

MaxCalls == 2
MaxFaults == 1
MaxExtra == 11

(* the request slots: two requests can be in progress at once *)
Procs == {1, 2}

(* Optional values *)
None == <<>>
Some(x) == <<x>>

(* Python str and the store's ObjectId *)
PyStr(chars) == [t |-> "str", s |-> chars]
NativeId(k) == [t |-> "ObjectId", n |-> k]

IdHexLen == 24
ServingsScale == 4
CollectionsCap == 10
HttpOk == 200
HttpNotFound == 404
HttpUnprocessable == 422
HttpServerError == 500

HexChars == <<"0", "1", "2", "3", "4", "5", "6", "7", "8", "9",
              "a", "b", "c", "d", "e", "f">>

HexValue(c) ==
    CASE c = "0" -> 0 [] c = "1" -> 1 [] c = "2" -> 2 [] c = "3" -> 3
      [] c = "4" -> 4 [] c = "5" -> 5 [] c = "6" -> 6 [] c = "7" -> 7
      [] c = "8" -> 8 [] c = "9" -> 9
      [] c \in {"a", "A"} -> 10 [] c \in {"b", "B"} -> 11
      [] c \in {"c", "C"} -> 12 [] c \in {"d", "D"} -> 13
      [] c \in {"e", "E"} -> 14 [] c \in {"f", "F"} -> 15
      [] OTHER -> -1

RECURSIVE HexDigits(_, _)
(* the `len` lowercase hex digits of k, most significant first *)
HexDigits(k, len) ==
    IF len = 0 THEN <<>>
    ELSE Append(HexDigits(k \div 16, len - 1), HexChars[(k % 16) + 1])

(* str(ObjectId): 24 lowercase hex characters *)
ObjectIdStr(oid) == PyStr(HexDigits(oid.n, IdHexLen))

(* bson.ObjectId.is_valid on a str: exactly 24 hex characters *)
ObjectIdValid(str) ==
    /\ Len(str.s) = IdHexLen
    /\ \A i \in 1..Len(str.s) : HexValue(str.s[i]) >= 0

RECURSIVE HexParse(_)
HexParse(chars) ==
    IF chars = <<>> THEN 0
    ELSE 16 * HexParse(SubSeq(chars, 1, Len(chars) - 1)) + HexValue(chars[Len(chars)])

(* ObjectId(str) for a valid str *)
ObjectIdOf(str) == NativeId(HexParse(str.s))

----------------------------------------------------------------------------
(* src/schemas.py *)

DietTag == {"vegan", "vegetarian", "keto", "low-carb", "gluten-free", "dairy-free"}
CategoryType == {"Breakfasts", "Main Meals", "Smoothies & Shakes"}
Frequency == {"weekly", "biweekly", "monthly"}

(* EmailStr: the addresses the model draws from that the validator accepts *)
ValidEmails == {"a@x.io", "b@x.io"}
EmailStr(e) == e \in ValidEmails

TargetProteinMin == 20
TargetProteinMax == 400
TargetProteinDefault == 120
ItemServingsMin == 2
ItemServingsMax == 20
ItemServingsDefault == 4

Macros(p, c, f, k) == [protein |-> p, carbs |-> c, fats |-> f, calories |-> k]

Meal(title, description, category, diet_tags, price, macros, custom, add_ons) ==
    [title |-> title, description |-> Some(description), category |-> category,
     diet_tags |-> diet_tags, price |-> price, macros |-> macros,
     image_url |-> None, is_customizable |-> custom, available_add_ons |-> add_ons]

(* the bug of a servings range without its upper end *)
ValidSubscriptionItemNoMax(item) ==
    /\ "meal_id" \in DOMAIN item
    /\ "servings" \in DOMAIN item => item.servings >= ItemServingsMin

(* SubscriptionItem: meal_id is required, servings defaults to 1.0 and lies in [0.5, 5] *)
ValidSubscriptionItem(item) ==
    /\ "meal_id" \in DOMAIN item
    /\ "servings" \in DOMAIN item =>
          item.servings >= ItemServingsMin /\ item.servings <= ItemServingsMax

SubscriptionItem(item) ==
    [meal_id |-> item.meal_id,
     servings |-> IF "servings" \in DOMAIN item THEN item.servings
                  ELSE ItemServingsDefault]

(* Subscription: what pydantic accepts of a request body *)
ValidSubscription(payload) ==
    /\ {"email", "frequency", "target_protein_g_per_day", "items"} \subseteq DOMAIN payload
    /\ EmailStr(payload.email)
    /\ payload.frequency \in Frequency
    /\ payload.target_protein_g_per_day >= TargetProteinMin
    /\ payload.target_protein_g_per_day <= TargetProteinMax
    /\ Len(payload.items) >= 1
    /\ \A i \in 1..Len(payload.items) : ValidSubscriptionItem(payload.items[i])

(* the validated model, as create_document stores it *)
Subscription(payload) ==
    [email |-> payload.email,
     frequency |-> payload.frequency,
     target_protein_g_per_day |-> payload.target_protein_g_per_day,
     items |-> [i \in 1..Len(payload.items) |-> SubscriptionItem(payload.items[i])],
     notes |-> IF "notes" \in DOMAIN payload THEN Some(payload.notes) ELSE None]

ValidPreference(payload) ==
    /\ "email" \in DOMAIN payload
    /\ EmailStr(payload.email)
    /\ "target_protein_g_per_day" \in DOMAIN payload =>
          /\ payload.target_protein_g_per_day >= TargetProteinMin
          /\ payload.target_protein_g_per_day <= TargetProteinMax
    /\ "diet_filters" \in DOMAIN payload =>
          \A i \in 1..Len(payload.diet_filters) : payload.diet_filters[i] \in DietTag

(* the bug of dumping only the fields the payload set (exclude_unset) *)
PreferenceDumpSetOnly(payload) == payload

(* Preference(...).model_dump(): every field, defaults filled in *)
PreferenceDump(payload) ==
    [email |-> payload.email,
     target_protein_g_per_day |->
        IF "target_protein_g_per_day" \in DOMAIN payload
        THEN payload.target_protein_g_per_day ELSE TargetProteinDefault,
     diet_filters |->
        IF "diet_filters" \in DOMAIN payload THEN payload.diet_filters ELSE <<>>]

----------------------------------------------------------------------------
(* src/main.py: the built-in catalog. Prices are in cents. *)

INITIAL_MEALS ==
    << Meal("Protein Pancakes", "Fluffy oat-banana pancakes with whey.", "Breakfasts",
            <<"vegetarian">>, 999, Macros(35, 45, 8, 420), FALSE, None),
       Meal("Spinach Omelette", "Egg whites, spinach, feta.", "Breakfasts",
            <<"keto">>, 850, Macros(32, 6, 14, 290), FALSE, None),
       Meal("Greek Yogurt Bowl", "Greek yogurt, berries, almonds.", "Breakfasts",
            <<"low-carb">>, 790, Macros(28, 22, 10, 320), FALSE, None),
       Meal("Chicken Power Bowl", "Grilled chicken, quinoa, veggies.", "Main Meals",
            <<>>, 1299, Macros(50, 40, 12, 520), FALSE, None),
       Meal("Tofu Teriyaki Bowl", "High-protein tofu, brown rice, broccoli.", "Main Meals",
            <<"vegan">>, 1150, Macros(35, 55, 14, 540), FALSE, None),
       Meal("Custom Protein Smoothie", "Build your own shake.", "Smoothies & Shakes",
            <<"vegan">>, 699, Macros(25, 30, 6, 310), TRUE,
            Some(<<"whey", "vegan protein", "creatine", "peanut butter", "chia seeds">>)) >>

----------------------------------------------------------------------------
(* The document store *)

(* a document as the store keeps it: the data plus the identity the store assigns *)
WithId(data, k) ==
    [f \in DOMAIN data \cup {"_id"} |-> IF f = "_id" THEN NativeId(k) ELSE data[f]]

InsertOne(coll, data, k) == Append(coll, WithId(data, k))

CountDocuments(coll) == Len(coll)

(* find_one({"_id": oid}): None, or the first document with that identity *)
FindOne(coll, oid) ==
    LET hits == {i \in 1..Len(coll) : coll[i]._id = oid}
    IN  IF hits = {} THEN None
        ELSE Some(coll[CHOOSE i \in hits : \A j \in hits : i <= j])

(* {"$set": fields} applied to a document: the named fields are overwritten,
   every other field of the document is kept *)
SetFields(doc, fields) ==
    [f \in DOMAIN doc \cup DOMAIN fields |->
        IF f \in DOMAIN fields THEN fields[f] ELSE doc[f]]

(* update_one({"email": email}, {"$set": fields}, upsert=True) *)
UpdateOneUpsert(coll, email, fields, k) ==
    LET hits == {i \in 1..Len(coll) : coll[i].email = email}
    IN  IF hits = {}
        THEN Append(coll, WithId(SetFields([email |-> email], fields), k))
        ELSE LET first == CHOOSE i \in hits : \A j \in hits : i <= j
             IN  [coll EXCEPT ![first] = SetFields(@, fields)]

(* database.create_document: inserts the model's fields as one document and
   returns the identity the store assigned, as a str *)
CreateDocument(coll, data, k) == InsertOne(coll, data, k)
CreatedId(k) == ObjectIdStr(NativeId(k))

(* the filter list_meals builds: a key is set only for a truthy parameter *)
Truthy(opt) == opt # None /\ opt[1] # ""

FilterDict(category, diet) ==
    [category |-> IF Truthy(category) THEN category ELSE None,
     diet_tags |-> IF Truthy(diet) THEN diet ELSE None]

InList(x, list) == \E i \in 1..Len(list) : list[i] = x

(* does a document match the filter: category by equality, diet_tags by $in *)
Matches(doc, filter_dict) ==
    /\ filter_dict.category # None => doc.category = filter_dict.category[1]
    /\ filter_dict.diet_tags # None => InList(filter_dict.diet_tags[1], doc.diet_tags)

(* database.get_documents: the documents of the collection that match *)
GetDocuments(coll, filter_dict) ==
    LET Hit(doc) == Matches(doc, filter_dict)
    IN  SelectSeq(coll, Hit)

ExtraNames == <<"c01", "c02", "c03", "c04", "c05", "c06", "c07", "c08",
                "c09", "c10", "c11", "c12", "c13", "c14", "c15", "c16">>

(* db.list_collection_names(): the collections that exist in the database *)
ListCollectionNames ==
    SubSeq(ExtraNames, 1, extra)
      \o (IF meal # <<>> THEN <<"meal">> ELSE <<>>)
      \o (IF subscription # <<>> THEN <<"subscription">> ELSE <<>>)
      \o (IF preference # <<>> THEN <<"preference">> ELSE <<>>)

(* a store call either returns or raises; the number of raises is bounded *)
StoreOutcomes == IF faults < MaxFaults THEN {"ok", "raise"} ELSE {"ok"}

StoreError == "store error"

(* a store failure whose text is longer than 50 characters *)
LongStoreError == "localhost:27017: [Errno 111] Connection refused, Timeout: 30s"
NoDatabase == "Database not available"

----------------------------------------------------------------------------
(* Responses *)

Response(op, status, body) == [op |-> op, status |-> status, body |-> body]

(* raise HTTPException(status_code=500, detail=str(e)) *)
ServerError(op, message) == Response(op, HttpServerError, [detail |-> message])

(* the framework's rejection of a request that fails validation *)
Unprocessable(op) == Response(op, HttpUnprocessable, [detail |-> "validation error"])

(* the outcome of a try block: a returned value or a raised exception *)
Return(value) == [raised |-> FALSE, value |-> value]
Raise(type, message) == [raised |-> TRUE, type |-> type, message |-> message]

----------------------------------------------------------------------------
(* GET /test *)

(* the bug of reporting every collection *)
FirstCollectionsAll(names) == names

(* collections[:10] *)
FirstCollections(names) ==
    SubSeq(names, 1, IF Len(names) < CollectionsCap THEN Len(names) ELSE CollectionsCap)

MessageCap == 50

(* str(e)[:50] *)
FirstChars(message) ==
    SubSeq(message, 1, IF Len(message) < MessageCap THEN Len(message) ELSE MessageCap)

SetOrNot(flag) == IF flag THEN "\\u2705 Set" ELSE "\\u274c Not Set"

(* the body of test_database: `listing` is the outcome of
   db.list_collection_names(), looked at only when db is not None *)
TestDatabaseReport(dbv, envv, listing) ==
    [backend |-> "\\u2705 Running",
     database |->
        IF dbv = "none" THEN "\\u26a0\\ufe0f  Available but not initialized"
        ELSE IF listing.raised
             THEN "\\u26a0\\ufe0f  Connected but Error: " \o FirstChars(listing.message)
        ELSE "\\u2705 Connected & Working",
     database_url |-> SetOrNot(envv.url),
     database_name |-> SetOrNot(envv.name),
     connection_status |-> IF dbv = "none" THEN "Not Connected" ELSE "Connected",
     collections |->
        IF dbv = "none" \/ listing.raised THEN <<>>
        ELSE FirstCollections(listing.value)]

----------------------------------------------------------------------------
(* POST /meals/portion *)

MinFactor == 1

(* the bug of a clamp on both sides, to [0.25, 5] *)
FactorClampedAbove(servings) ==
    IF servings > 20 THEN 20 ELSE IF servings > MinFactor THEN servings ELSE MinFactor

(* max(0.25, float(req.servings)) *)
Factor(servings) == IF servings > MinFactor THEN servings ELSE MinFactor

(* round(v * factor, 1) in tenths, for v a whole number and factor in
   1/ServingsScale: the exact quotient 10 * v * factor / ServingsScale rounded
   to the nearest integer, a tie to the even one *)
Round1(v, factor) ==
    LET n == 10 * v * factor
        q == n \div ServingsScale
        r == n % ServingsScale
    IN  IF 2 * r < ServingsScale THEN q
        ELSE IF 2 * r > ServingsScale THEN q + 1
        ELSE IF q % 2 = 0 THEN q ELSE q + 1

ScaledMacros(macros, factor) == [k \in DOMAIN macros |-> Round1(macros[k], factor)]

(* the try block of get_portion_macros; `outcome` is the store call's *)
PortionTry(dbv, coll, r, outcome) ==
    IF dbv = "none" THEN Raise("TypeError", "'NoneType' object is not subscriptable")
    ELSE IF ~ObjectIdValid(r.meal_id) THEN Raise("InvalidId", "not a valid ObjectId")
    ELSE IF outcome = "raise" THEN Raise("StoreError", StoreError)
    ELSE LET doc == FindOne(coll, ObjectIdOf(r.meal_id))
         IN  IF doc = None THEN Raise("HTTPException", "404: Meal not found")
             ELSE Return([servings |-> Factor(r.servings),
                          macros |-> ScaledMacros(doc[1].macros, Factor(r.servings))])

(* get_portion_macros, its except clause included: whatever the try block
   raises, the HTTPException of the not-found case too, leaves as a 500 *)
GetPortionMacros(dbv, coll, r, outcome) ==
    LET t == PortionTry(dbv, coll, r, outcome)
    IN  IF t.raised THEN ServerError("portion", t.message)
        ELSE Response("portion", HttpOk, t.value)

----------------------------------------------------------------------------
(* GET /meals *)

(* the bug of a strict comparison with the threshold *)
ProteinFilterStrict(docs, min_protein) ==
    LET More(m) == m.macros.protein > min_protein[1]
    IN  IF min_protein # None THEN SelectSeq(docs, More) ELSE docs

(* the protein threshold, applied after retrieval *)
ProteinFilter(docs, min_protein) ==
    LET Enough(m) == m.macros.protein >= min_protein[1]
    IN  IF min_protein # None THEN SelectSeq(docs, Enough) ELSE docs

(* the bug of renaming the key without the conversion to str *)
ExposeIdRaw(m) ==
    IF "_id" \in DOMAIN m
    THEN [f \in (DOMAIN m \ {"_id"}) \cup {"id"} |-> IF f = "id" THEN m._id ELSE m[f]]
    ELSE m

(* m["id"] = str(m.pop("_id")) *)
ExposeId(m) ==
    IF "_id" \in DOMAIN m
    THEN [f \in (DOMAIN m \ {"_id"}) \cup {"id"} |->
            IF f = "id" THEN ObjectIdStr(m._id) ELSE m[f]]
    ELSE m

ListMealsItems(coll, r) ==
    LET docs == ProteinFilter(GetDocuments(coll, FilterDict(r.category, r.diet)),
                              r.min_protein)
    IN  [i \in 1..Len(docs) |-> ExposeId(docs[i])]

----------------------------------------------------------------------------
(* The requests the model draws from *)

(* a meal an administrator created, with the macros {10, 20, 5, 100} *)
AdminMeal ==
    Meal("Recovery Shake", "Post-workout shake.", "Smoothies & Shakes",
         <<"vegetarian", "gluten-free">>, 500, Macros(10, 20, 5, 100), FALSE, None)

ListRequests ==
    [op : {"list_meals"},
     category : {None, Some(""), Some("Breakfasts")},
     diet : {None, Some(""), Some("vegan")},
     min_protein : {None, Some(-1), Some(32)}]

PortionRequests ==
    [op : {"portion"}, meal_id : {ObjectIdStr(NativeId(1))},
     servings : {-4, 0, 1, 2, 3, 8, 400}]
      \cup [op : {"portion"},
            meal_id : {ObjectIdStr(NativeId(5)), ObjectIdStr(NativeId(255)),
                       PyStr(<<"n", "o", "i", "d">>)},
            servings : {4}]

ItemLists ==
    { <<>>,
      <<[meal_id |-> "m1"]>>,
      <<[meal_id |-> "m1", servings |-> 1]>>,
      <<[meal_id |-> "m1", servings |-> 2]>>,
      <<[meal_id |-> "m1", servings |-> 20], [meal_id |-> "m2", servings |-> 4]>>,
      <<[meal_id |-> "m1", servings |-> 4], [meal_id |-> "m2", servings |-> 21]>>,
      <<[servings |-> 4]>> }

BasePayload ==
    [email |-> "a@x.io", frequency |-> "weekly", target_protein_g_per_day |-> 120,
     items |-> <<[meal_id |-> "m1", servings |-> 4]>>]

SubscriptionPayloads ==
    {[BasePayload EXCEPT !.items = it] : it \in ItemLists}
      \cup {[BasePayload EXCEPT !.target_protein_g_per_day = t] : t \in {19, 20, 400, 401}}
      \cup {[BasePayload EXCEPT !.frequency = f] : f \in {"monthly", "daily"}}
      \cup {[BasePayload EXCEPT !.email = e] : e \in {"b@x.io", "not-an-email"}}
      \cup {[email |-> "a@x.io", frequency |-> "biweekly", target_protein_g_per_day |-> 90,
             items |-> <<[meal_id |-> "m2"]>>, notes |-> "no nuts"],
            [email |-> "a@x.io", frequency |-> "weekly", target_protein_g_per_day |-> 120]}

PreferencePayloads ==
    { [email |-> "a@x.io"],
      [email |-> "a@x.io", target_protein_g_per_day |-> 20],
      [email |-> "a@x.io", diet_filters |-> <<"keto">>],
      [email |-> "a@x.io", target_protein_g_per_day |-> 400, diet_filters |-> <<"vegan">>],
      [email |-> "b@x.io"],
      [email |-> "b@x.io", target_protein_g_per_day |-> 150,
       diet_filters |-> <<"vegan", "dairy-free">>],
      [email |-> "not-an-email"],
      [email |-> "a@x.io", target_protein_g_per_day |-> 19],
      [email |-> "a@x.io", target_protein_g_per_day |-> 401],
      [email |-> "a@x.io", diet_filters |-> <<"paleo">>],
      [target_protein_g_per_day |-> 100] }

----------------------------------------------------------------------------
(* The state after start-up *)

NoRequest == [op |-> "none"]
NoResponse == Response("none", 0, [detail |-> ""])

Init ==
    /\ db \in {"present", "none"}
    /\ env \in [url : BOOLEAN, name : BOOLEAN]
    /\ db = "present" => env.name
    /\ extra \in IF db = "present" THEN {0, MaxExtra} ELSE {0}
    /\ meal \in IF db = "present" THEN {<<>>, <<WithId(AdminMeal, 1)>>} ELSE {<<>>}
    /\ subscription = <<>>
    /\ preference = <<>>
    /\ nextId = Len(meal) + 1
    /\ pc = [p \in Procs |-> "idle"]
    /\ existing = [p \in Procs |-> 0]
    /\ idx = [p \in Procs |-> 0]
    /\ req = [p \in Procs |-> NoRequest]
    /\ resp = [p \in Procs |-> NoResponse]
    /\ upserts = <<>>
    /\ faults = 0
    /\ calls = 0

----------------------------------------------------------------------------
(* The handlers *)

(* a request arrives at an idle slot *)
Receive(p, r) ==
    /\ pc[p] = "idle"
    /\ calls < MaxCalls
    /\ calls' = calls + 1
    /\ req' = [req EXCEPT ![p] = r]

Reply(p, r) == resp' = [resp EXCEPT ![p] = r]

(* the outcomes of a store call that is made only when `made` *)
Outcomes(made) == IF made THEN StoreOutcomes ELSE {"ok"}
Count(made, outcome) == faults' = IF made /\ outcome = "raise" THEN faults + 1 ELSE faults

ReadRoot(p) ==
    /\ Receive(p, [op |-> "root"])
    /\ Reply(p, Response("root", HttpOk,
                         [message |-> "Protein-focused Food Delivery Backend"]))
    /\ UNCHANGED <<db, env, extra, meal, subscription, preference, nextId, pc,
                   existing, idx, upserts, faults>>

TestDatabase(p) ==
    /\ Receive(p, [op |-> "test"])
    /\ \E outcome \in Outcomes(db # "none") :
          /\ Count(db # "none", outcome)
          /\ \E message \in IF outcome = "raise" THEN {StoreError, LongStoreError}
                              ELSE {StoreError} :
                Reply(p, Response("test", HttpOk,
                    TestDatabaseReport(db, env,
                        IF outcome = "raise" THEN Raise("StoreError", message)
                        ELSE Return(ListCollectionNames))))
    /\ UNCHANGED <<db, env, extra, meal, subscription, preference, nextId, pc,
                   existing, idx, upserts>>

(* the bug of seeding whatever the count is *)
CollectionEmptyAlways(n) == n >= 0

(* `if existing == 0` *)
CollectionEmpty(n) == n = 0

(* the bug of a loop that stops one meal short *)
LastIterationEarly(i) == i = Len(INITIAL_MEALS) - 1

(* the for loop over INITIAL_MEALS ends after the iteration at position i *)
LastIteration(i) == i = Len(INITIAL_MEALS)

(* seed up to the for loop: the count, and the return when the collection is
   not empty *)
Seed(p) ==
    /\ Receive(p, [op |-> "seed"])
    /\ \E outcome \in Outcomes(db # "none") :
          /\ Count(db # "none", outcome)
          /\ IF outcome = "raise"
             THEN /\ Reply(p, ServerError("seed", StoreError))
                  /\ UNCHANGED <<pc, existing, idx>>
             ELSE LET n == IF db # "none" THEN CountDocuments(meal) ELSE 0
                  IN  IF CollectionEmpty(n)
                      THEN /\ pc' = [pc EXCEPT ![p] = "seed_loop"]
                           /\ existing' = [existing EXCEPT ![p] = n]
                           /\ idx' = [idx EXCEPT ![p] = 1]
                           /\ UNCHANGED resp
                      ELSE /\ Reply(p, Response("seed", HttpOk,
                                                [seeded |-> FALSE, count |-> n]))
                           /\ UNCHANGED <<pc, existing, idx>>
    /\ UNCHANGED <<db, env, extra, meal, subscription, preference, nextId, upserts>>

(* one iteration of seed's for loop: create_document("meal", m); after the
   last one, the return *)
SeedInsert(p) ==
    /\ pc[p] = "seed_loop"
    /\ \E outcome \in Outcomes(db # "none") :
          /\ Count(db # "none", outcome)
          /\ IF db = "none" \/ outcome = "raise"
             THEN /\ Reply(p, ServerError("seed",
                                IF db = "none" THEN NoDatabase ELSE StoreError))
                  /\ pc' = [pc EXCEPT ![p] = "idle"]
                  /\ idx' = [idx EXCEPT ![p] = 0]
                  /\ UNCHANGED <<meal, nextId>>
             ELSE /\ meal' = CreateDocument(meal, INITIAL_MEALS[idx[p]], nextId)
                  /\ nextId' = nextId + 1
                  /\ IF LastIteration(idx[p])
                     THEN /\ Reply(p, Response("seed", HttpOk,
                                  [seeded |-> TRUE, count |-> Len(INITIAL_MEALS)]))
                          /\ pc' = [pc EXCEPT ![p] = "idle"]
                          /\ idx' = [idx EXCEPT ![p] = 0]
                     ELSE /\ idx' = [idx EXCEPT ![p] = idx[p] + 1]
                          /\ UNCHANGED <<pc, resp>>
    /\ UNCHANGED <<db, env, extra, subscription, preference, existing, req,
                   upserts, calls>>

ListMeals(p) ==
    \E r \in ListRequests :
        /\ Receive(p, r)
        /\ LET valid == r.min_protein # None => r.min_protein[1] >= 0
               made == valid /\ db # "none"
           IN  \E outcome \in Outcomes(made) :
                  /\ Count(made, outcome)
                  /\ Reply(p,
                        IF ~valid THEN Unprocessable("list_meals")
                        ELSE IF db = "none" THEN ServerError("list_meals", NoDatabase)
                        ELSE IF outcome = "raise" THEN ServerError("list_meals", StoreError)
                        ELSE Response("list_meals", HttpOk,
                                      [items |-> ListMealsItems(meal, r)]))
        /\ UNCHANGED <<db, env, extra, meal, subscription, preference, nextId, pc,
                       existing, idx, upserts>>

Portion(p) ==
    \E r \in PortionRequests :
        /\ Receive(p, r)
        /\ LET made == db # "none" /\ ObjectIdValid(r.meal_id)
           IN  \E outcome \in Outcomes(made) :
                  /\ Count(made, outcome)
                  /\ Reply(p, GetPortionMacros(db, meal, r, outcome))
        /\ UNCHANGED <<db, env, extra, meal, subscription, preference, nextId, pc,
                       existing, idx, upserts>>

CreateSubscription(p) ==
    \E payload \in SubscriptionPayloads :
        /\ Receive(p, [op |-> "create_subscription", payload |-> payload])
        /\ LET valid == ValidSubscription(payload)
               made == valid /\ db # "none"
           IN  \E outcome \in Outcomes(made) :
                  /\ Count(made, outcome)
                  /\ IF made /\ outcome = "ok"
                     THEN /\ subscription' =
                                CreateDocument(subscription, Subscription(payload), nextId)
                          /\ nextId' = nextId + 1
                          /\ Reply(p, Response("create_subscription", HttpOk,
                                               [id |-> CreatedId(nextId)]))
                     ELSE /\ Reply(p,
                                IF ~valid THEN Unprocessable("create_subscription")
                                ELSE ServerError("create_subscription",
                                        IF db = "none" THEN NoDatabase ELSE StoreError))
                          /\ UNCHANGED <<subscription, nextId>>
        /\ UNCHANGED <<db, env, extra, meal, preference, pc, existing, idx, upserts>>

UpsertPreferences(p) ==
    \E payload \in PreferencePayloads :
        /\ Receive(p, [op |-> "upsert_preferences", payload |-> payload])
        /\ LET valid == ValidPreference(payload)
               made == valid /\ db # "none"
           IN  \E outcome \in Outcomes(made) :
                  /\ Count(made, outcome)
                  /\ IF made /\ outcome = "ok"
                     THEN /\ preference' = UpdateOneUpsert(preference, payload.email,
                                                PreferenceDump(payload), nextId)
                          /\ nextId' = nextId + (Len(preference') - Len(preference))
                          /\ upserts' = Append(upserts, payload)
                          /\ Reply(p, Response("upsert_preferences", HttpOk,
                                               [status |-> "ok"]))
                     ELSE /\ Reply(p,
                                IF ~valid THEN Unprocessable("upsert_preferences")
                                ELSE ServerError("upsert_preferences",
                                        IF db = "none"
                                        THEN "'NoneType' object is not subscriptable"
                                        ELSE StoreError))
                          /\ UNCHANGED <<preference, nextId, upserts>>
        /\ UNCHANGED <<db, env, extra, meal, subscription, pc, existing, idx>>

Next ==
    \E p \in Procs :
        \/ ReadRoot(p)
        \/ TestDatabase(p)
        \/ Seed(p)
        \/ SeedInsert(p)
        \/ ListMeals(p)
        \/ Portion(p)
        \/ CreateSubscription(p)
        \/ UpsertPreferences(p)

Spec == Init /\ [][Next]_vars

(* Start-up with the configuration that only GET /test looks at held fixed *)
InitPlain ==
    /\ Init
    /\ extra = 0
    /\ env.url = env.name

(* The handlers of the meal catalog: seeding, listing and portion scaling *)
NextCatalog ==
    \E p \in Procs :
        \/ Seed(p)
        \/ SeedInsert(p)
        \/ ListMeals(p)
        \/ Portion(p)

SpecCatalog == InitPlain /\ [][NextCatalog]_vars

(* Seeding alone, the requests overlapping freely *)
NextSeed == \E p \in Procs : Seed(p) \/ SeedInsert(p)

SpecSeed == InitPlain /\ [][NextSeed]_vars

(* Seeding with the requests one after the other: a slot takes a step only
   while no other slot has a request in progress *)
NextSeedSeq ==
    \E p \in Procs :
        /\ \A q \in Procs \ {p} : pc[q] = "idle"
        /\ (Seed(p) \/ SeedInsert(p))

SpecSeedSeq == InitPlain /\ [][NextSeedSeq]_vars

(* The handlers that write records, and the probes *)
NextRecords ==
    \E p \in Procs :
        \/ ReadRoot(p)
        \/ TestDatabase(p)
        \/ CreateSubscription(p)
        \/ UpsertPreferences(p)

SpecRecords == Init /\ [][NextRecords]_vars

(* The handlers that return an identity *)
NextIdentity ==
    \E p \in Procs :
        \/ Seed(p)
        \/ SeedInsert(p)
        \/ ListMeals(p)
        \/ CreateSubscription(p)

SpecIdentity == InitPlain /\ [][NextIdentity]_vars

----------------------------------------------------------------------------
(* Properties *)

Titles(docs) == {docs[i].title : i \in 1..Len(docs)}

(* the stored document is the built-in meal at position i of the catalog *)
IsBuiltIn(doc, i) ==
    /\ doc.title = INITIAL_MEALS[i].title
    /\ doc.category = INITIAL_MEALS[i].category
    /\ doc.diet_tags = INITIAL_MEALS[i].diet_tags
    /\ doc.price = INITIAL_MEALS[i].price
    /\ doc.macros = INITIAL_MEALS[i].macros
    /\ doc.is_customizable = INITIAL_MEALS[i].is_customizable

(* how many stored meals carry the title of a built-in meal *)
BuiltInCount ==
    Cardinality({i \in 1..Len(meal) : meal[i].title \in Titles(INITIAL_MEALS)})

SeedReplied(p) == pc[p] = "idle" /\ resp[p].op = "seed" /\ resp[p].status = HttpOk

(* C1: portion scaling for a well-formed meal identity that matches no stored
   meal, the store answering, ends with 404 and not with 500 or a
   servings/macros record. (Meals are never deleted, so an identity that
   matches nothing now matched nothing when the request was handled.) *)
C1_UnknownMealIsNotFound ==
    \A p \in Procs :
        ( /\ req[p].op = "portion"
          /\ resp[p].op = "portion"
          /\ db = "present"
          /\ faults = 0
          /\ ObjectIdValid(req[p].meal_id)
          /\ FindOne(meal, ObjectIdOf(req[p].meal_id)) = None )
        => resp[p].status = HttpNotFound

(* C2: with the seed requests one after the other, a call that found the
   collection empty inserts the built-in meals, in order and nothing else, and
   reports seeded=true, count=6 with exactly the 6 built-in meals stored; a call
   that found it non-empty writes nothing and reports seeded=false with the
   count that is stored; so from an empty collection, with no store failure,
   every completed call leaves exactly 6 meals. *)
C2_SequentialSeed ==
    \A p \in Procs :
        /\ pc[p] = "seed_loop" =>
              /\ Len(meal) = idx[p] - 1
              /\ \A i \in 1..Len(meal) : IsBuiltIn(meal[i], i)
        /\ (SeedReplied(p) /\ resp[p].body.seeded) =>
              /\ resp[p].body.count = 6
              /\ Len(meal) = 6
              /\ \A i \in 1..6 : IsBuiltIn(meal[i], i)
        /\ (SeedReplied(p) /\ ~resp[p].body.seeded) =>
              /\ resp[p].body.count = Len(meal)
              /\ resp[p].body.count > 0
              /\ (faults = 0 /\ meal[1].title # AdminMeal.title) => Len(meal) = 6

(* two calls one after the other on an empty collection: the first seeded,
   the second did not, and 6 meals are stored *)
C2_Witness ==
    /\ SeedReplied(1) /\ resp[1].body.seeded /\ resp[1].body.count = 6
    /\ SeedReplied(2) /\ ~resp[2].body.seeded /\ resp[2].body.count = 6
    /\ Len(meal) = 6

(* C3: seed is not safe under overlapping first calls: whenever both callers
   have been told seeded=true, each has inserted its own copy of the catalog,
   so the collection holds 12 meals, more than 6, with every built-in title
   stored twice. *)
C3_ConcurrentSeedDuplicates ==
    (\A p \in Procs : SeedReplied(p) /\ resp[p].body.seeded) =>
        /\ Len(meal) = 2 * Len(INITIAL_MEALS)
        /\ Len(meal) > 6
        /\ \A t \in Titles(INITIAL_MEALS) :
              Cardinality({i \in 1..Len(meal) : meal[i].title = t}) = 2

(* both calls observed a count of 0, both inserted, both were told seeded=true *)
C3_Witness ==
    /\ \A p \in Procs : SeedReplied(p) /\ resp[p].body.seeded /\ existing[p] = 0
    /\ Len(meal) = 12
    /\ BuiltInCount = 12

(* C10: every operation is all-or-nothing with respect to the store; a seed
   call in which a store write fails leaves either none or all 6 of the
   built-in meals, never a strict subset. Stated for seed calls that run one
   after the other, once no call is in progress. *)
C10_SeedAllOrNothing ==
    (\A p \in Procs : pc[p] = "idle") => BuiltInCount \in {0, 6}


(* the payload of the most recent successful upsert for an email *)
LastUpsert(e) ==
    LET at == {i \in 1..Len(upserts) : upserts[i].email = e}
    IN  upserts[CHOOSE i \in at : \A j \in at : j <= i]

UpsertedEmails == {upserts[i].email : i \in 1..Len(upserts)}

(* C4: after any sequence of valid preference upserts the collection holds
   exactly one record per distinct email, whose target_protein_g_per_day and
   diet_filters are those of the most recent upsert for that email, 120 and
   the empty list standing in for a field that payload omitted; nothing of an
   earlier upsert remains. *)
C4_UpsertReplaces ==
    /\ Len(preference) = Cardinality(UpsertedEmails)
    /\ \A e \in UpsertedEmails :
          LET docs == {i \in 1..Len(preference) : preference[i].email = e}
              last == LastUpsert(e)
          IN  /\ Cardinality(docs) = 1
              /\ \A i \in docs :
                    /\ DOMAIN preference[i] =
                          {"_id", "email", "target_protein_g_per_day", "diet_filters"}
                    /\ preference[i].target_protein_g_per_day =
                          IF "target_protein_g_per_day" \in DOMAIN last
                          THEN last.target_protein_g_per_day ELSE 120
                    /\ preference[i].diet_filters =
                          IF "diet_filters" \in DOMAIN last
                          THEN last.diet_filters ELSE <<>>

(* two upserts for one email, the first with diet filters, the second without:
   one record, with no filters *)
C4_Witness ==
    /\ Len(upserts) >= 2
    /\ upserts[1].email = upserts[2].email
    /\ "diet_filters" \in DOMAIN upserts[1] /\ upserts[1].diet_filters # <<>>
    /\ "diet_filters" \notin DOMAIN upserts[2]
    /\ Len(preference) = 1
    /\ preference[1].diet_filters = <<>>

(* the stored meals a list request asks for, a filter counting as supplied
   by `Supplied` *)
Wanted(m, r, Supplied(_)) ==
    /\ Supplied(r.category) => m.category = r.category[1]
    /\ Supplied(r.diet) => \E i \in 1..Len(m.diet_tags) : m.diet_tags[i] = r.diet[1]
    /\ r.min_protein # None => ~(m.macros.protein < r.min_protein[1])

(* the items are exactly the wanted stored meals, each once *)
ExactlyWanted(items, r, Supplied(_)) ==
    LET wanted == {i \in 1..Len(meal) : Wanted(meal[i], r, Supplied)}
    IN  /\ Len(items) = Cardinality(wanted)
        /\ {items[i].id : i \in 1..Len(items)} = {ObjectIdStr(meal[i]._id) : i \in wanted}
        /\ \A i \in 1..Len(items) : \A j \in wanted :
              items[i].id = ObjectIdStr(meal[j]._id) =>
                 /\ items[i].title = meal[j].title
                 /\ items[i].category = meal[j].category
                 /\ items[i].diet_tags = meal[j].diet_tags
                 /\ items[i].macros = meal[j].macros

Given(opt) == opt # None
GivenNonEmpty(opt) == opt # None /\ opt # Some("")

(* C5 as stated: list meals returns exactly the stored meals that satisfy
   every filter given in the request. *)
C5_ListExactlyGiven ==
    [][\A p \in Procs :
          (ListMeals(p) /\ resp'[p].status = HttpOk) =>
              ExactlyWanted(resp'[p].body.items, req'[p], Given)]_vars

(* C5 amended: list meals returns exactly the stored meals that satisfy every
   filter given with a non-empty value; a category or diet given as the empty
   string filters nothing. *)
C5_ListExactlyNonEmpty ==
    [][\A p \in Procs :
          (ListMeals(p) /\ resp'[p].status = HttpOk) =>
              ExactlyWanted(resp'[p].body.items, req'[p], GivenNonEmpty)]_vars

(* the seeded catalog listed with category Breakfasts and min_protein 32:
   two of the three breakfasts *)
C5_Witness ==
    \E p \in Procs :
        /\ req[p].op = "list_meals" /\ resp[p].op = "list_meals"
        /\ resp[p].status = HttpOk
        /\ req[p].category = Some("Breakfasts")
        /\ req[p].min_protein = Some(32)
        /\ Len(resp[p].body.items) = 2
        /\ BuiltInCount = 6


(* a create-subscription body that breaks one of the stated constraints;
   servings are in quarters, so [0.5, 5] is 2..20 *)
BreaksConstraint(payload) ==
    \/ /\ "target_protein_g_per_day" \in DOMAIN payload
       /\ payload.target_protein_g_per_day < 20 \/ payload.target_protein_g_per_day > 400
    \/ "items" \in DOMAIN payload /\ Len(payload.items) = 0
    \/ "frequency" \in DOMAIN payload
          /\ payload.frequency \notin {"weekly", "biweekly", "monthly"}
    \/ /\ "items" \in DOMAIN payload
       /\ \E i \in 1..Len(payload.items) :
             /\ "servings" \in DOMAIN payload.items[i]
             /\ payload.items[i].servings < 2 \/ payload.items[i].servings > 20

MeetsConstraints(doc) ==
    /\ doc.target_protein_g_per_day >= 20 /\ doc.target_protein_g_per_day <= 400
    /\ Len(doc.items) >= 1
    /\ doc.frequency \in {"weekly", "biweekly", "monthly"}
    /\ \A i \in 1..Len(doc.items) :
          doc.items[i].servings >= 2 /\ doc.items[i].servings <= 20

(* C6: a create-subscription request whose target protein is outside
   [20, 400], whose items list is empty, whose frequency is not weekly,
   biweekly or monthly, or with an item whose servings is outside [0.5, 5] is
   answered 422 and leaves the subscription collection unchanged; every
   stored subscription meets all of these constraints. *)
C6_InvalidSubscriptionRejected ==
    /\ [](\A i \in 1..Len(subscription) : MeetsConstraints(subscription[i]))
    /\ [][\A p \in Procs :
            (CreateSubscription(p) /\ BreaksConstraint(req'[p].payload)) =>
                /\ resp'[p].status = HttpUnprocessable
                /\ subscription' = subscription]_vars

(* one subscription is stored and a request with an item of servings 5.25 was
   rejected *)
C6_Witness ==
    /\ Len(subscription) = 1
    /\ \E p \in Procs :
          /\ req[p].op = "create_subscription"
          /\ resp[p].op = "create_subscription"
          /\ resp[p].status = HttpUnprocessable
          /\ "items" \in DOMAIN req[p].payload
          /\ Len(req[p].payload.items) = 2
          /\ req[p].payload.items[2].servings = 21

MacroFields == {"protein", "carbs", "fats", "calories"}

(* the stored meal a portion request names, when there is one *)
Named(r) == {i \in 1..Len(meal) : ObjectIdStr(meal[i]._id) = r.meal_id}

(* C7: portion scaling on an existing meal, the store answering, returns the
   factor max(0.25, servings): 0.25 for any servings at or below 0.25, the
   servings itself above, with no upper clamp; and each macro field of the
   meal times that factor, to the nearest tenth. Servings are in quarters and
   scaled macros in tenths: out is within half a tenth of v * f / 4 when
   4 * out is within 2 of 10 * v * f. Servings 2 on {10, 20, 5, 100} gives
   {20, 40, 10, 200}; servings 100 gives factor 100. *)
C7_PortionScaling ==
    [][\A p \in Procs :
          (Portion(p) /\ faults' = faults /\ Named(req'[p]) # {}) =>
              LET r == req'[p]
                  out == resp'[p].body
                  m == meal[CHOOSE i \in Named(r) : TRUE].macros
              IN  /\ resp'[p].status = HttpOk
                  /\ r.servings <= 1 => out.servings = 1
                  /\ r.servings > 1 => out.servings = r.servings
                  /\ r.servings = 400 => out.servings = 400
                  /\ DOMAIN out.macros = MacroFields
                  /\ \A k \in MacroFields :
                        /\ 4 * out.macros[k] - 10 * m[k] * out.servings <= 2
                        /\ 10 * m[k] * out.servings - 4 * out.macros[k] <= 2
                  /\ (r.servings = 8 /\ m = Macros(10, 20, 5, 100)) =>
                        out.macros = Macros(200, 400, 100, 2000)
                  /\ r.servings = 400 =>
                        \A k \in MacroFields : out.macros[k] = 1000 * m[k]]_vars

(* the administrator's meal {10, 20, 5, 100} scaled with servings 0: factor
   0.25 and macros {2.5, 5.0, 1.2, 25.0} *)
C7_Witness ==
    \E p \in Procs :
        /\ req[p].op = "portion" /\ resp[p].op = "portion"
        /\ resp[p].status = HttpOk
        /\ req[p].servings = 0
        /\ resp[p].body.servings = 1
        /\ resp[p].body.macros = Macros(25, 50, 12, 250)

(* how many collections exist in the database *)
Existing ==
    extra + Cardinality({c \in {"m", "s", "p"} :
                            \/ c = "m" /\ meal # <<>>
                            \/ c = "s" /\ subscription # <<>>
                            \/ c = "p" /\ preference # <<>>})

(* C8: the diagnostic probe never ends in an error: with the store handle
   absent, the listing of collections failing or configuration missing, it
   answers 200 with the failure as status text (of the store's message at
   most the first 50 characters), and it reports at most 10 collections. *)
C8_ProbeNeverFails ==
    [][\A p \in Procs :
          TestDatabase(p) =>
              LET out == resp'[p].body
              IN  /\ resp'[p].status = HttpOk
                  /\ Len(out.collections) <= 10
                  /\ db = "none" =>
                        /\ out.database = "\\u26a0\\ufe0f  Available but not initialized"
                        /\ out.connection_status = "Not Connected"
                        /\ out.collections = <<>>
                  /\ faults' > faults =>
                        /\ out.database \in
                              {"\\u26a0\\ufe0f  Connected but Error: store error",
                               "\\u26a0\\ufe0f  Connected but Error: "
                                  \o "localhost:27017: [Errno 111] Connection refused, T"}
                        /\ out.collections = <<>>
                  /\ (db # "none" /\ faults' = faults) =>
                        /\ out.database = "\\u2705 Connected & Working"
                        /\ Len(out.collections) = IF Existing < 10 THEN Existing ELSE 10
                  /\ ~env.url => out.database_url = "\\u274c Not Set"
                  /\ ~env.name => out.database_name = "\\u274c Not Set"]_vars

(* a database with more than 10 collections: 10 are reported *)
C8_Witness ==
    \E p \in Procs :
        /\ resp[p].op = "test"
        /\ extra > 10
        /\ Len(resp[p].body.collections) = 10
        /\ resp[p].body.database = "\\u2705 Connected & Working"

(* a plain string holding an identity: 24 hexadecimal characters *)
PlainIdString(v) ==
    /\ v.t = "str"
    /\ Len(v.s) = 24
    /\ \A i \in 1..Len(v.s) : v.s[i] \in {HexChars[j] : j \in 1..16}

(* the number a string of hexadecimal characters denotes *)
RECURSIVE Denotes(_, _)
Denotes(chars, k) ==
    IF chars = <<>> THEN k = 0
    ELSE /\ chars[Len(chars)] = HexChars[(k % 16) + 1]
         /\ Denotes(SubSeq(chars, 1, Len(chars) - 1), k \div 16)

(* C9: in a successful response an identity is a plain string: an item of
   list meals has no "_id" key and has under "id" the string form of the
   identity of a stored meal; create subscription returns under "id" the
   string form of the identity of a stored subscription. *)
C9_IdentityIsString ==
    \A p \in Procs :
        /\ (resp[p].op = "list_meals" /\ resp[p].status = HttpOk) =>
              \A i \in 1..Len(resp[p].body.items) :
                 LET item == resp[p].body.items[i]
                 IN  /\ "_id" \notin DOMAIN item
                     /\ "id" \in DOMAIN item
                     /\ PlainIdString(item.id)
                     /\ \E j \in 1..Len(meal) :
                           /\ Denotes(item.id.s, meal[j]._id.n)
                           /\ meal[j].title = item.title
        /\ (resp[p].op = "create_subscription" /\ resp[p].status = HttpOk) =>
              /\ PlainIdString(resp[p].body.id)
              /\ \E j \in 1..Len(subscription) :
                    Denotes(resp[p].body.id.s, subscription[j]._id.n)

(* one caller listed stored meals, the other created a subscription *)
C9_Witness ==
    \E p, q \in Procs :
        /\ resp[p].op = "list_meals" /\ resp[p].status = HttpOk
        /\ Len(resp[p].body.items) >= 1
        /\ resp[q].op = "create_subscription" /\ resp[q].status = HttpOk

====
